---- MODULE Spec2Model ----
(***************************************************************************)
(* Model of src/Account.py: the Account ledger and its CreditAccount       *)
(* variant.  Balances, limits and amounts are Python floats; here a float  *)
(* is an integer number of units that has at most Prec significant bits,   *)
(* and every addition or subtraction rounds its exact result to the        *)
(* nearest such number, ties to the even significand (IEEE 754 binary64    *)
(* has 53 significant bits; the model keeps the rounding and scales the    *)
(* precision down).                                                        *)
(***************************************************************************)
EXTENDS Integers, Sequences, FiniteSets, TLC

VARIABLES phase, kind, holder, _balance, _credit_limit, operations_history,
          clock, ctor, calls

\* what a caller of get_history holds
VARIABLES caller

\* a call of sum_distance and a call of trim_and_repeat: arguments, result
VARIABLES task1, task2

\* two host threads calling deposit / withdraw on the same account, and
\* what was observed of their calls
VARIABLES threads, conc

\* the account and the bookkeeping of the calls made on it
acct_vars == <<phase, kind, holder, _balance, _credit_limit,
               operations_history, clock, ctor, calls>>

\* calls made on the account before and between get_history calls
MaxHistCalls == 2

\* changes the caller makes to what get_history returned
MaxTamper == 1

HistAmounts == {-5, 40, 150}

TamperFields == {"status", "balance_after"}

\* sum_distance is called with arguments in -SumBound..SumBound
SumBound == 10

\* trim_and_repeat is called with offsets in -OffsetBound..OffsetBound and
\* repetitions in -1..RepBound
OffsetBound == 6

RepBound == 3

Strings == {<<>>, <<"h", "i">>, <<"h", "e", "l", "l", "o">>}

\* rounds of two concurrent calls made on one account
MaxRounds == 2

ConcBalances == {0, 40}

ConcCalls == {[op |-> "deposit", amount |-> 40],
              [op |-> "withdraw", amount |-> 40]}

\* state outside the account object
aux_vars == <<caller, task1, task2, threads, conc>>

vars == <<acct_vars, aux_vars>>

(* ------------------------------ bounds -------------------------------- *)

\* significant bits of a float (53 in CPython, scaled down)
Prec == 7

\* deposit / withdraw calls made on one account
MaxOps == 3

\* constructor arguments and requested amounts that are tried
Holders == {"Alice"}

InitialBalances == {-60, -30, 0, 1, 100}

CreditLimits == {-10, 0, 50}

Amounts == {-5, 0, 1, 10, 40, 100, 150}

(* --------------------------- float arithmetic ------------------------- *)

Abs(x) == IF x < 0 THEN -x ELSE x

RECURSIVE Pow2(_)
Pow2(n) == IF n = 0 THEN 1 ELSE 2 * Pow2(n - 1)

\* spacing of the floats around the exact value x
RECURSIVE UlpFrom(_, _)
UlpFrom(x, u) == IF Abs(x) < u * Pow2(Prec) THEN u ELSE UlpFrom(x, 2 * u)

Ulp(x) == UlpFrom(x, 1)

\* the float nearest to the exact value x, ties to the even significand
RoundF(x) ==
    LET u == Ulp(x)
        q == x \div u
        r == x % u
    IN  IF 2 * r < u THEN q * u
        ELSE IF 2 * r > u THEN (q + 1) * u
        ELSE IF q % 2 = 0 THEN q * u ELSE (q + 1) * u

\* float(x)
ToFloat(x) == RoundF(x)

\* x + y on floats
FAdd(x, y) == RoundF(x + y)

\* x - y on floats
FSub(x, y) == RoundF(x - y)

(* ------------------------------ records ------------------------------- *)

NoExtra == [k \in {} |-> 0]

_add_operation_SuccessOnly(history, op_type, amount, status, balance_after, extra, now) ==
    IF status = "fail" THEN history
    ELSE Append(history, [type |-> op_type, amount |-> amount,
                          datetime |-> now, balance_after |-> balance_after,
                          status |-> status] @@ extra)

_add_operation_Prepend(history, op_type, amount, status, balance_after, extra, now) ==
    <<[type |-> op_type, amount |-> amount, datetime |-> now,
       balance_after |-> balance_after, status |-> status] @@ extra>>
        \o history

_add_operation_NoExtra(history, op_type, amount, status, balance_after, extra, now) ==
    Append(history, [type |-> op_type, amount |-> amount, datetime |-> now,
                     balance_after |-> balance_after, status |-> status])

_add_operation_AmountAsBalance(history, op_type, amount, status, balance_after, extra, now) ==
    Append(history, extra @@ [type |-> op_type, amount |-> amount,
                              datetime |-> now, balance_after |-> amount,
                              status |-> status])

\* Account._add_operation: the history with the new record appended
_add_operation(history, op_type, amount, status, balance_after, extra, now) ==
    LET record == [type |-> op_type,
                   amount |-> amount,
                   datetime |-> now,
                   balance_after |-> balance_after,
                   status |-> status]
    IN  Append(history, IF DOMAIN extra # {} THEN extra @@ record ELSE record)

\* Account.get_balance / Account.balance
get_balance == _balance

\* CreditAccount.get_available_credit, on a given balance
AvailableCredit(limit, bal) == FAdd(limit, bal)

get_available_credit == AvailableCredit(_credit_limit, _balance)

(* ------------------------ tests made by the code ---------------------- *)

NotPositive_Strict(amount) == amount < 0

\* "if amount <= 0" of deposit and withdraw, in both classes
NotPositive(amount) == amount <= 0

InsufficientFunds_Unchecked(amount, balance) == FALSE

InsufficientFunds_AtBalance(amount, balance) == amount >= balance

InsufficientFunds_Reversed(amount, balance) == amount < balance

\* "if amount > self._balance" of Account.withdraw
InsufficientFunds(amount, balance) == amount > balance

CreditLimitExceeded_OffByOne(new_balance, credit_limit) ==
    new_balance < -credit_limit - 1

CreditLimitExceeded_AtLimit(new_balance, credit_limit) ==
    new_balance <= -credit_limit

CreditLimitExceeded_Magnitude(new_balance, credit_limit) ==
    Abs(new_balance) > credit_limit

\* "if new_balance < -self._credit_limit" of CreditAccount.withdraw
CreditLimitExceeded(new_balance, credit_limit) == new_balance < -credit_limit

UsedCreditWithdraw_AtZero(new_balance) == new_balance <= 0

\* "used_credit = new_balance < 0" of CreditAccount.withdraw
UsedCreditWithdraw(new_balance) == new_balance < 0

UsedCreditDeposit_After(before, balance_now) == balance_now < 0

\* "used_credit = before < 0" of CreditAccount.deposit, evaluated after the
\* balance was raised to balance_now
UsedCreditDeposit(before, balance_now) == before < 0

\* no thread is inside a call
IdleThread == [pc |-> "idle", op |-> "none", amount |-> 0, loaded |-> 0,
               status |-> "none", reason |-> "none", balance_after |-> 0]

NoThreads == [t \in {1, 2} |-> IdleThread]

\* no round of concurrent calls was made yet; overlapped: in the current
\* round one call began while the other was under way
NoRounds == [rounds |-> 0, start_balance |-> 0, start_len |-> 0,
             overlapped |-> FALSE, lost |-> FALSE, negative |-> FALSE,
             disorder |-> FALSE]

\* sum_distance and trim_and_repeat are not being called
NoTask1 == [pc |-> "idle", frm |-> 0, to |-> 0, result |-> 0]

NoTask2 == [pc |-> "idle", s |-> <<>>, offset |-> 0, repetitions |-> 0,
            result |-> <<>>]

\* the caller holds no list yet
NoList == [held |-> FALSE, items |-> <<>>, fetched_at |-> 0,
           edited |-> FALSE, tampers |-> 0]

(* ---------------------------- construction ---------------------------- *)

Init ==
    /\ phase = "new"
    /\ kind = "none"
    /\ holder = ""
    /\ _balance = 0
    /\ _credit_limit = 0
    /\ operations_history = <<>>
    /\ clock = 0
    /\ ctor = [balance |-> 0, credit_limit |-> 0]
    /\ calls = <<>>
    /\ caller = NoList
    /\ threads = NoThreads
    /\ conc = NoRounds
    /\ task1 = NoTask1
    /\ task2 = NoTask2

AccountInitRaises_Zero(balance) == balance <= 0

\* Account.__init__: TRUE when it raises ValueError
AccountInitRaises(balance) == balance < 0

\* Account(account_holder, balance)
NewAccount(account_holder, balance) ==
    /\ phase = "new"
    /\ kind' = "Account"
    /\ ctor' = [balance |-> balance, credit_limit |-> 0]
    /\ IF AccountInitRaises(balance)
       THEN /\ phase' = "raised"
            /\ UNCHANGED <<holder, _balance, operations_history>>
       ELSE /\ phase' = "live"
            /\ holder' = account_holder
            /\ _balance' = ToFloat(balance)
            /\ operations_history' = <<>>
    /\ UNCHANGED <<_credit_limit, clock, calls>>
    /\ UNCHANGED aux_vars

\* CreditAccount.__init__: TRUE when it raises ValueError, in its own
\* checks or in the base constructor it calls last
CreditInitRaises(balance, credit_limit) ==
    \/ credit_limit < 0
    \/ balance < -ToFloat(credit_limit)
    \/ AccountInitRaises(balance)

\* CreditAccount(account_holder, balance, credit_limit)
NewCreditAccount(account_holder, balance, credit_limit) ==
    /\ phase = "new"
    /\ kind' = "CreditAccount"
    /\ ctor' = [balance |-> balance, credit_limit |-> credit_limit]
    /\ IF CreditInitRaises(balance, credit_limit)
       THEN /\ phase' = "raised"
            /\ UNCHANGED <<holder, _balance, _credit_limit, operations_history>>
       ELSE /\ phase' = "live"
            /\ _credit_limit' = ToFloat(credit_limit)
            /\ holder' = account_holder
            /\ _balance' = ToFloat(balance)
            /\ operations_history' = <<>>
    /\ UNCHANGED <<clock, calls>>
    /\ UNCHANGED aux_vars

(* ----------------------------- operations ----------------------------- *)

\* bookkeeping of the call being made: what was asked and the balance then
Called(op, amount) ==
    /\ Len(calls) < MaxOps
    /\ calls' = Append(calls, [op |-> op, amount |-> amount,
                               balance_before |-> _balance])
    /\ clock' = clock + 1
    /\ UNCHANGED <<phase, kind, holder, _credit_limit, ctor>>
    /\ UNCHANGED aux_vars

\* Account.deposit(amount)
AccountDeposit(amount) ==
    /\ phase = "live" /\ kind = "Account"
    /\ Called("deposit", amount)
    /\ IF NotPositive(amount)
       THEN /\ operations_history' =
                  _add_operation(operations_history, "deposit", amount, "fail",
                                 _balance, [reason |-> "Amount must be positive"],
                                 clock')
            /\ UNCHANGED _balance
       ELSE /\ _balance' = FAdd(_balance, amount)
            /\ operations_history' =
                  _add_operation(operations_history, "deposit", amount,
                                 "success", _balance', NoExtra, clock')

\* Account.withdraw(amount)
AccountWithdraw(amount) ==
    /\ phase = "live" /\ kind = "Account"
    /\ Called("withdraw", amount)
    /\ IF NotPositive(amount)
       THEN /\ operations_history' =
                  _add_operation(operations_history, "withdraw", amount, "fail",
                                 _balance, [reason |-> "Amount must be positive"],
                                 clock')
            /\ UNCHANGED _balance
       ELSE IF InsufficientFunds(amount, _balance)
       THEN /\ operations_history' =
                  _add_operation(operations_history, "withdraw", amount, "fail",
                                 _balance, [reason |-> "Insufficient funds"],
                                 clock')
            /\ UNCHANGED _balance
       ELSE /\ _balance' = FSub(_balance, amount)
            /\ operations_history' =
                  _add_operation(operations_history, "withdraw", amount,
                                 "success", _balance', NoExtra, clock')

\* CreditAccount.withdraw(amount)
CreditWithdraw(amount) ==
    /\ phase = "live" /\ kind = "CreditAccount"
    /\ Called("withdraw", amount)
    /\ IF NotPositive(amount)
       THEN /\ operations_history' =
                  _add_operation(operations_history, "withdraw", amount, "fail",
                                 _balance, [reason |-> "Amount must be positive"],
                                 clock')
            /\ UNCHANGED _balance
       ELSE LET new_balance == FSub(_balance, amount)
            IN  IF CreditLimitExceeded(new_balance, _credit_limit)
                THEN /\ operations_history' =
                           _add_operation(operations_history, "withdraw", amount,
                                          "fail", _balance,
                                          [reason |-> "Credit limit exceeded"],
                                          clock')
                     /\ UNCHANGED _balance
                ELSE LET used_credit == UsedCreditWithdraw(new_balance)
                     IN  /\ _balance' = new_balance
                         /\ operations_history' =
                               _add_operation(operations_history, "withdraw",
                                   amount, "success", _balance',
                                   [used_credit |-> used_credit,
                                    available_credit_after |->
                                        AvailableCredit(_credit_limit, _balance')],
                                   clock')

\* CreditAccount.deposit(amount)
CreditDeposit(amount) ==
    /\ phase = "live" /\ kind = "CreditAccount"
    /\ Called("deposit", amount)
    /\ IF NotPositive(amount)
       THEN /\ operations_history' =
                  _add_operation(operations_history, "deposit", amount, "fail",
                                 _balance, [reason |-> "Amount must be positive"],
                                 clock')
            /\ UNCHANGED _balance
       ELSE LET before == _balance
            IN  /\ _balance' = FAdd(_balance, amount)
                /\ operations_history' =
                      _add_operation(operations_history, "deposit", amount,
                          "success", _balance',
                          [used_credit |-> UsedCreditDeposit(before, _balance'),
                           available_credit_after |->
                               AvailableCredit(_credit_limit, _balance')],
                          clock')

Next ==
    \/ \E h \in Holders, b \in InitialBalances : NewAccount(h, b)
    \/ \E h \in Holders, b \in InitialBalances, l \in CreditLimits :
          NewCreditAccount(h, b, l)
    \/ \E a \in Amounts : AccountDeposit(a)
    \/ \E a \in Amounts : AccountWithdraw(a)
    \/ \E a \in Amounts : CreditDeposit(a)
    \/ \E a \in Amounts : CreditWithdraw(a)

Spec == Init /\ [][Next]_vars

(* ------------------------ get_history and its caller ------------------ *)

\* An element of a list held by the caller is a dict object: either one of
\* the dicts stored in operations_history (shared, at index idx) or a dict
\* of its own with the content rec.
CopyOf(history, i) == [shared |-> FALSE, idx |-> 0, rec |-> history[i]]

SameObject(history, i) == [shared |-> TRUE, idx |-> i, rec |-> history[i]]

get_history_NoCopy(history) == [i \in 1..Len(history) |-> SameObject(history, i)]

\* Account.get_history: a new list of record.copy() for every stored record
get_history(history) == [i \in 1..Len(history) |-> CopyOf(history, i)]

\* the dict an element of the caller's list denotes
Deref(h) == IF h.shared THEN operations_history[h.idx] ELSE h.rec

\* the content of the list the caller holds
Contents == [i \in 1..Len(caller.items) |-> Deref(caller.items[i])]

\* history = account.get_history()
CallGetHistory ==
    /\ phase = "live"
    /\ caller' = [held |-> TRUE, items |-> get_history(operations_history),
                  fetched_at |-> Len(calls), edited |-> FALSE,
                  tampers |-> caller.tampers]
    /\ UNCHANGED <<acct_vars, task1, task2, threads, conc>>

\* history[i][field] = "tampered", by the caller
CallerSetField(i, field) ==
    /\ caller.held /\ caller.tampers < MaxTamper
    /\ i \in 1..Len(caller.items)
    /\ LET h == caller.items[i]
           changed == [Deref(h) EXCEPT ![field] = "tampered"]
       IN  IF h.shared
           THEN /\ operations_history' =
                      [operations_history EXCEPT ![h.idx] = changed]
                /\ caller' = [caller EXCEPT !.edited = TRUE,
                                            !.tampers = @ + 1]
           ELSE /\ caller' = [caller EXCEPT !.items[i].rec = changed,
                                            !.edited = TRUE,
                                            !.tampers = @ + 1]
                /\ UNCHANGED operations_history
    /\ UNCHANGED <<phase, kind, holder, _balance, _credit_limit, clock, ctor,
                   calls, task1, task2, threads, conc>>

\* history.append({...}), by the caller: the list is the caller's own
CallerAppend ==
    /\ caller.held /\ caller.tampers < MaxTamper
    /\ caller' = [caller EXCEPT
                    !.items = Append(@, [shared |-> FALSE, idx |-> 0,
                                         rec |-> [type |-> "tampered"]]),
                    !.edited = TRUE, !.tampers = @ + 1]
    /\ UNCHANGED <<acct_vars, task1, task2, threads, conc>>

\* history.pop(), by the caller
CallerRemove ==
    /\ caller.held /\ caller.tampers < MaxTamper
    /\ Len(caller.items) > 0
    /\ caller' = [caller EXCEPT
                    !.items = SubSeq(@, 1, Len(@) - 1),
                    !.edited = TRUE, !.tampers = @ + 1]
    /\ UNCHANGED <<acct_vars, task1, task2, threads, conc>>

NextHistory ==
    \/ \E h \in Holders, b \in InitialBalances : NewAccount(h, b)
    \/ \E h \in Holders, b \in InitialBalances, l \in CreditLimits :
          NewCreditAccount(h, b, l)
    \/ \E a \in HistAmounts : Len(calls) < MaxHistCalls /\ AccountDeposit(a)
    \/ \E a \in HistAmounts : Len(calls) < MaxHistCalls /\ AccountWithdraw(a)
    \/ \E a \in HistAmounts : Len(calls) < MaxHistCalls /\ CreditDeposit(a)
    \/ \E a \in HistAmounts : Len(calls) < MaxHistCalls /\ CreditWithdraw(a)
    \/ CallGetHistory
    \/ \E i \in 1..MaxHistCalls + 1, f \in TamperFields : CallerSetField(i, f)
    \/ CallerAppend
    \/ CallerRemove

SpecHistory == Init /\ [][NextHistory]_vars

(* ----------------------------- sum_distance --------------------------- *)

SwapIfReversed_Never(frm, to) == <<frm, to>>

\* "if frm > to: frm, to = to, frm"
SwapIfReversed(frm, to) == IF frm > to THEN <<to, frm>> ELSE <<frm, to>>

\* "for num in range(num, to + 1): total += num"
RECURSIVE SumLoop(_, _, _)
SumLoop(num, to, total) ==
    IF num >= to + 1 THEN total ELSE SumLoop(num + 1, to, total + num)

\* sum_distance(frm, to)
sum_distance(frm, to) ==
    LET args == SwapIfReversed(frm, to)
    IN  SumLoop(args[1], args[2], 0)

InitSum ==
    /\ phase = "new"
    /\ kind = "none"
    /\ holder = ""
    /\ _balance = 0
    /\ _credit_limit = 0
    /\ operations_history = <<>>
    /\ clock = 0
    /\ ctor = [balance |-> 0, credit_limit |-> 0]
    /\ calls = <<>>
    /\ caller = NoList
    /\ threads = NoThreads
    /\ conc = NoRounds
    /\ task2 = NoTask2
    /\ \E frm \in -SumBound..SumBound, to \in -SumBound..SumBound :
          task1 = [pc |-> "called", frm |-> frm, to |-> to, result |-> 0]

\* the call returns
SumDistanceReturn ==
    /\ task1.pc = "called"
    /\ task1' = [task1 EXCEPT !.pc = "done",
                              !.result = sum_distance(task1.frm, task1.to)]
    /\ UNCHANGED <<acct_vars, caller, task2, threads, conc>>

NextSum == SumDistanceReturn

SpecSum == InitSum /\ [][NextSum]_vars

(* ---------------------------- trim_and_repeat ------------------------- *)

Min(a, b) == IF a < b THEN a ELSE b

Max(a, b) == IF a > b THEN a ELSE b

ClampOffset_None(offset) == offset

\* "if offset < 0: offset = 0"
ClampOffset(offset) == IF offset < 0 THEN 0 ELSE offset

\* s[start:] of Python: a negative start counts from the end
SliceFrom(s, start) ==
    LET first == IF start < 0 THEN Max(Len(s) + start, 0)
                 ELSE Min(start, Len(s))
    IN  SubSeq(s, first + 1, Len(s))

\* trimmed * repetitions
RECURSIVE Repeat(_, _)
Repeat(trimmed, n) ==
    IF n <= 0 THEN <<>> ELSE trimmed \o Repeat(trimmed, n - 1)

\* trim_and_repeat(s, offset, repetitions)
trim_and_repeat(s, offset, repetitions) ==
    LET off == ClampOffset(offset)
    IN  IF repetitions <= 0 THEN <<>>
        ELSE Repeat(SliceFrom(s, off), repetitions)

InitTrim ==
    /\ phase = "new"
    /\ kind = "none"
    /\ holder = ""
    /\ _balance = 0
    /\ _credit_limit = 0
    /\ operations_history = <<>>
    /\ clock = 0
    /\ ctor = [balance |-> 0, credit_limit |-> 0]
    /\ calls = <<>>
    /\ caller = NoList
    /\ threads = NoThreads
    /\ conc = NoRounds
    /\ task1 = NoTask1
    /\ \E s \in Strings, offset \in -OffsetBound..OffsetBound,
          repetitions \in -1..RepBound :
          task2 = [pc |-> "called", s |-> s, offset |-> offset,
                   repetitions |-> repetitions, result |-> <<>>]

\* the call returns
TrimAndRepeatReturn ==
    /\ task2.pc = "called"
    /\ task2' = [task2 EXCEPT
                   !.pc = "done",
                   !.result = trim_and_repeat(task2.s, task2.offset,
                                              task2.repetitions)]
    /\ UNCHANGED <<acct_vars, caller, task1, threads, conc>>

NextTrim == TrimAndRepeatReturn

SpecTrim == InitTrim /\ [][NextTrim]_vars

(* ------------------------------ properties ---------------------------- *)

Live == phase = "live"

NCalls == Len(calls)

\* the balance right after the i-th call returned
BalanceAfterCall(i) ==
    IF i < Len(calls) THEN calls[i + 1].balance_before ELSE _balance

HasField(r, f) == f \in DOMAIN r

\* C1: a base Account never has a negative balance, from its construction on
\* and after any sequence of deposit and withdraw calls with any amounts.
C1_AccountBalanceNonNegative ==
    (Live /\ kind = "Account") => get_balance >= 0

\* a base Account that was emptied by a successful withdrawal, one of the
\* three calls made on it having a non-positive amount
C1_Witness ==
    /\ Live /\ kind = "Account" /\ NCalls = 3
    /\ \E i \in 1..NCalls : NotPositive(calls[i].amount)
    /\ operations_history[NCalls].type = "withdraw"
    /\ operations_history[NCalls].status = "success"
    /\ _balance = 0

\* C2: a CreditAccount never has a balance below -credit_limit, so the
\* available credit is never negative.
C2_CreditBalanceWithinLimit ==
    (Live /\ kind = "CreditAccount") =>
        /\ _credit_limit >= 0
        /\ get_balance >= -_credit_limit
        /\ get_available_credit >= 0

\* a CreditAccount drawn down to its limit, its next withdrawal rejected
C2_Witness ==
    /\ Live /\ kind = "CreditAccount" /\ _credit_limit > 0
    /\ _balance = -_credit_limit
    /\ get_available_credit = 0
    /\ operations_history[NCalls].type = "withdraw"
    /\ operations_history[NCalls].status = "fail"

\* C3: constructing a CreditAccount fails only when credit_limit < 0 or
\* initial_balance < -credit_limit, so CreditAccount("Bob", -30, 50) is
\* created and deposit(10) then leaves balance -20 with used_credit true.
C3_CreditConstruction ==
    /\ (kind = "CreditAccount" /\ phase = "raised") =>
           (ctor.credit_limit < 0 \/ ctor.balance < -ctor.credit_limit)
    /\ (/\ Live /\ kind = "CreditAccount"
        /\ ctor = [balance |-> -30, credit_limit |-> 50]
        /\ NCalls >= 1
        /\ calls[1].op = "deposit" /\ calls[1].amount = 10) =>
           /\ BalanceAfterCall(1) = -20
           /\ operations_history[1].status = "success"
           /\ operations_history[1].used_credit = TRUE

\* C4: every deposit or withdraw call appends exactly one record, and that
\* record carries the operation called and the amount as requested.
C4_OneRecordPerCall ==
    /\ Len(operations_history) = NCalls
    /\ \A i \in 1..NCalls :
          /\ i <= Len(operations_history)
          /\ operations_history[i].type = calls[i].op
          /\ operations_history[i].amount = calls[i].amount

\* three calls were made, some rejected and some accepted
C4_Witness ==
    /\ Live /\ NCalls = 3
    /\ \E i \in 1..NCalls : operations_history[i].status = "fail"
    /\ \E i \in 1..NCalls : operations_history[i].status = "success"
    /\ \E i \in 1..NCalls : calls[i].amount < 0

\* C5: a deposit or withdraw call with amount <= 0 raises nothing, leaves
\* the balance as it was and appends a fail record with reason "Amount must
\* be positive" and balance_after equal to the balance before the call, as
\* often as the call is repeated.
C5_NonPositiveAmountRejected ==
    (NCalls > 0) =>
        /\ Live
        /\ \A i \in 1..NCalls :
              calls[i].amount <= 0 =>
                 /\ i <= Len(operations_history)
                 /\ operations_history[i].status = "fail"
                 /\ HasField(operations_history[i], "reason")
                 /\ operations_history[i].reason = "Amount must be positive"
                 /\ operations_history[i].balance_after = calls[i].balance_before
                 /\ BalanceAfterCall(i) = calls[i].balance_before

\* withdraw(-5) repeated on an account holding money, then deposit(0)
C5_Witness ==
    /\ Live /\ NCalls = 3 /\ _balance # 0
    /\ calls[1].op = "withdraw" /\ calls[1].amount = -5
    /\ calls[2].op = "withdraw" /\ calls[2].amount = -5
    /\ calls[3].op = "deposit" /\ calls[3].amount = 0
    /\ \A i \in 1..3 : operations_history[i].status = "fail"

\* C6: Account.withdraw(amount) with amount > 0 succeeds exactly when
\* amount <= balance: then the balance becomes balance - amount (as the
\* float subtraction computes it) and a success record with the new balance
\* is appended; otherwise the balance is unchanged and a fail record with
\* reason "Insufficient funds" and the unchanged balance is appended.
C6_AccountWithdraw ==
    (Live /\ kind = "Account") =>
        \A i \in 1..NCalls :
            (calls[i].op = "withdraw" /\ calls[i].amount > 0) =>
                LET r == operations_history[i]
                    before == calls[i].balance_before
                IN  IF calls[i].amount <= before
                    THEN /\ r.status = "success"
                         /\ BalanceAfterCall(i) = FSub(before, calls[i].amount)
                         /\ BalanceAfterCall(i) <= before
                         /\ r.balance_after = BalanceAfterCall(i)
                         /\ ~HasField(r, "reason")
                    ELSE /\ r.status = "fail"
                         /\ HasField(r, "reason")
                         /\ r.reason = "Insufficient funds"
                         /\ BalanceAfterCall(i) = before
                         /\ r.balance_after = before

\* Account("Alice", 100): withdraw(150) is rejected, then the whole balance
\* of a base Account is withdrawn and 0 is left
C6_Witness ==
    /\ Live /\ kind = "Account" /\ ctor.balance = 100 /\ NCalls = 3
    /\ calls[1].op = "withdraw" /\ calls[1].amount = 150
    /\ operations_history[1].status = "fail"
    /\ operations_history[1].reason = "Insufficient funds"
    /\ BalanceAfterCall(1) = 100
    /\ calls[3].op = "withdraw" /\ calls[3].amount = calls[3].balance_before
    /\ operations_history[3].status = "success"
    /\ _balance = 0

\* C7: CreditAccount.withdraw(amount) with amount > 0 succeeds exactly when
\* balance - amount >= -credit_limit; otherwise the balance is unchanged and
\* a fail record with reason "Credit limit exceeded" and the unchanged
\* balance is appended.
C7_CreditWithdraw ==
    (Live /\ kind = "CreditAccount") =>
        \A i \in 1..NCalls :
            (calls[i].op = "withdraw" /\ calls[i].amount > 0) =>
                LET r == operations_history[i]
                    before == calls[i].balance_before
                IN  IF FSub(before, calls[i].amount) >= -_credit_limit
                    THEN /\ r.status = "success"
                         /\ BalanceAfterCall(i) = FSub(before, calls[i].amount)
                         /\ r.balance_after = BalanceAfterCall(i)
                    ELSE /\ r.status = "fail"
                         /\ HasField(r, "reason")
                         /\ r.reason = "Credit limit exceeded"
                         /\ BalanceAfterCall(i) = before
                         /\ r.balance_after = before

\* a withdrawal brought the balance to exactly -credit_limit and the next
\* one was rejected
C7_Witness ==
    /\ Live /\ kind = "CreditAccount" /\ _credit_limit = 50 /\ NCalls = 3
    /\ calls[2].op = "withdraw"
    /\ operations_history[2].status = "success"
    /\ operations_history[2].balance_after = -50
    /\ calls[3].op = "withdraw" /\ calls[3].amount = 1
    /\ operations_history[3].status = "fail"
    /\ operations_history[3].reason = "Credit limit exceeded"
    /\ _balance = -50

\* C8: the record of a successful CreditAccount.withdraw has used_credit
\* true exactly when the resulting balance is negative, and
\* available_credit_after equal to credit_limit plus the resulting balance;
\* CreditAccount("Bob", 0, 50).withdraw(40) gives -40, true and 10.
C8_CreditWithdrawRecord ==
    (Live /\ kind = "CreditAccount") =>
        /\ \A i \in 1..NCalls :
              LET r == operations_history[i]
              IN  (r.type = "withdraw" /\ r.status = "success") =>
                      /\ HasField(r, "used_credit")
                      /\ HasField(r, "available_credit_after")
                      /\ r.used_credit = (BalanceAfterCall(i) < 0)
                      /\ r.available_credit_after =
                             FAdd(_credit_limit, BalanceAfterCall(i))
        /\ (/\ ctor = [balance |-> 0, credit_limit |-> 50]
            /\ NCalls >= 1
            /\ calls[1].op = "withdraw" /\ calls[1].amount = 40) =>
               /\ BalanceAfterCall(1) = -40
               /\ operations_history[1].status = "success"
               /\ operations_history[1].used_credit = TRUE
               /\ operations_history[1].available_credit_after = 10

\* CreditAccount("Bob", 0, 50).withdraw(40), after a successful withdrawal
\* that left the account at zero and used no credit
C8_Witness ==
    /\ Live /\ kind = "CreditAccount" /\ NCalls = 3
    /\ ctor = [balance |-> 0, credit_limit |-> 50]
    /\ operations_history[2].type = "withdraw"
    /\ operations_history[2].status = "success"
    /\ operations_history[2].balance_after = 0
    /\ operations_history[2].used_credit = FALSE
    /\ calls[3].op = "withdraw" /\ calls[3].amount = 40
    /\ operations_history[3].used_credit = TRUE
    /\ operations_history[3].available_credit_after = 10
    /\ _balance = -40

\* C9: the record of a successful CreditAccount.deposit has used_credit true
\* exactly when the balance before the deposit was negative, also when the
\* deposit brings the balance to zero or above, and available_credit_after
\* equal to credit_limit plus the balance after the deposit.
C9_CreditDepositRecord ==
    (Live /\ kind = "CreditAccount") =>
        \A i \in 1..NCalls :
            (calls[i].op = "deposit" /\ calls[i].amount > 0) =>
                LET r == operations_history[i]
                IN  /\ r.status = "success"
                    /\ HasField(r, "used_credit")
                    /\ HasField(r, "available_credit_after")
                    /\ r.used_credit = (calls[i].balance_before < 0)
                    /\ r.available_credit_after =
                           FAdd(_credit_limit, BalanceAfterCall(i))

\* a deposit that repaid the credit in full is recorded with used_credit
\* true, and the deposit after it with used_credit false
C9_Witness ==
    /\ Live /\ kind = "CreditAccount" /\ NCalls = 3
    /\ calls[2].op = "deposit" /\ calls[2].balance_before < 0
    /\ operations_history[2].status = "success"
    /\ operations_history[2].balance_after >= 0
    /\ operations_history[2].used_credit = TRUE
    /\ calls[3].op = "deposit"
    /\ operations_history[3].status = "success"
    /\ operations_history[3].used_credit = FALSE

\* C10: deposit(amount) with amount > 0 followed at once by
\* withdraw(amount) returns the balance to its value before the deposit,
\* and both records have status success.
C10_DepositWithdrawRoundTrip ==
    Live =>
        \A i \in 1..NCalls :
            (/\ i < NCalls
             /\ calls[i].op = "deposit" /\ calls[i].amount > 0
             /\ calls[i + 1].op = "withdraw"
             /\ calls[i + 1].amount = calls[i].amount) =>
                /\ operations_history[i].status = "success"
                /\ operations_history[i + 1].status = "success"
                /\ BalanceAfterCall(i + 1) = calls[i].balance_before

\* the caller holds the list of a get_history call made after the last
\* deposit or withdraw, and has not changed it since
FreshList ==
    caller.held /\ ~caller.edited /\ caller.fetched_at = Len(calls)

\* C11: get_history returns copies of all records in insertion order: a
\* change the caller makes to a returned record or to the returned list
\* changes neither the balance nor the stored history, and a get_history
\* call made afterwards returns the records as they were appended.
C11_HistoryCopies ==
    [][/\ (caller'.tampers # caller.tampers) =>
              /\ operations_history' = operations_history
              /\ _balance' = _balance
       /\ FreshList' =>
              /\ Contents' = operations_history'
              /\ Len(caller'.items) = Len(calls')
              /\ \A i \in 1..Len(calls') :
                    /\ Contents'[i].type = calls'[i].op
                    /\ Contents'[i].amount = calls'[i].amount
                    /\ Contents'[i].status \in {"success", "fail"}]_vars

\* the caller changed a record of a returned two-element list, and the
\* list fetched after that has the stored records again
C11_Witness ==
    /\ Live /\ Len(operations_history) = 2
    /\ caller.tampers = 1 /\ FreshList
    /\ Contents = operations_history
    /\ operations_history[1].status = "fail"
    /\ operations_history[2].status = "success"

\* C12: the history is append-only: the history before a deposit or
\* withdraw call is a prefix of the history after it, so records already
\* appended are never modified, reordered or removed.
C12_HistoryAppendOnly ==
    [][/\ Len(operations_history') >= Len(operations_history)
       /\ SubSeq(operations_history', 1, Len(operations_history))
              = operations_history]_vars

\* three records, the first of them showing a balance that later calls
\* have changed since
C12_Witness ==
    /\ Live /\ Len(operations_history) = 3
    /\ operations_history[1].status = "success"
    /\ operations_history[1].balance_after # _balance
    /\ operations_history[1].balance_after = BalanceAfterCall(1)
    /\ operations_history[3].datetime > operations_history[1].datetime

\* C13: constructing an Account fails exactly when initial_balance < 0 and
\* then no account exists; otherwise the balance is initial_balance and the
\* history is empty.
C13_AccountConstruction ==
    (kind = "Account") =>
        /\ (phase = "raised") <=> (ctor.balance < 0)
        /\ (phase = "live") <=> (ctor.balance >= 0)
        /\ (phase = "raised") =>
               (operations_history = <<>> /\ calls = <<>> /\ holder = "")
        /\ (Live /\ NCalls = 0) =>
               (get_balance = ctor.balance /\ operations_history = <<>>)

\* Account("Alice", 100) right after its construction
C13_Witness ==
    /\ Live /\ kind = "Account" /\ NCalls = 0
    /\ ctor.balance = 100 /\ _balance = 100
    /\ holder = "Alice"
    /\ operations_history = <<>>

FailReasons ==
    {"Amount must be positive", "Insufficient funds", "Credit limit exceeded"}

\* C14: every record has status success or fail; reason is present exactly
\* on fail records and is one of the three reasons; used_credit and
\* available_credit_after are present exactly on the success records of a
\* CreditAccount.
C14_RecordShape ==
    \A i \in 1..Len(operations_history) :
        LET r == operations_history[i]
        IN  /\ r.status \in {"success", "fail"}
            /\ HasField(r, "reason") <=> (r.status = "fail")
            /\ HasField(r, "reason") => r.reason \in FailReasons
            /\ HasField(r, "used_credit") <=>
                   (kind = "CreditAccount" /\ r.status = "success")
            /\ HasField(r, "available_credit_after") <=>
                   (kind = "CreditAccount" /\ r.status = "success")
            /\ (kind = "Account") => (r.status = "fail" =>
                   r.reason # "Credit limit exceeded")

\* a CreditAccount with a record of each shape: two kinds of failure and a
\* success
C14_Witness ==
    /\ Live /\ kind = "CreditAccount" /\ Len(operations_history) = 3
    /\ \E i \in 1..3 : /\ operations_history[i].status = "fail"
                       /\ operations_history[i].reason = "Credit limit exceeded"
    /\ \E i \in 1..3 : /\ operations_history[i].status = "fail"
                       /\ operations_history[i].reason = "Amount must be positive"
    /\ \E i \in 1..3 : /\ operations_history[i].status = "success"
                       /\ HasField(operations_history[i], "used_credit")

\* C15: sum_distance(frm, to) is the sum of all integers between frm and to
\* inclusive whatever the order of the arguments:
\* (lo + hi) * (hi - lo + 1) / 2 with lo the smaller and hi the larger one;
\* sum_distance(5, 5) = 5, sum_distance(3, 1) = 6, sum_distance(10, 1) = 55.
C15_SumDistance ==
    (task1.pc = "done") =>
        LET lo == Min(task1.frm, task1.to)
            hi == Max(task1.frm, task1.to)
        IN  /\ 2 * task1.result = (lo + hi) * (hi - lo + 1)
            /\ task1.result = sum_distance(task1.to, task1.frm)
            /\ (task1.frm = 5 /\ task1.to = 5) => task1.result = 5
            /\ (task1.frm = 3 /\ task1.to = 1) => task1.result = 6
            /\ (task1.frm = 10 /\ task1.to = 1) => task1.result = 55

\* sum_distance(10, 1) returned 55
C15_Witness ==
    /\ task1.pc = "done"
    /\ task1.frm = 10 /\ task1.to = 1
    /\ task1.result = 55

\* C16: trim_and_repeat(s, offset, repetitions) is empty when
\* repetitions <= 0 or offset >= len(s); otherwise it is s without its first
\* max(offset, 0) characters, repeated repetitions times, of length
\* (len(s) - max(offset, 0)) * repetitions; ("hello", 2, 3) gives
\* "llollollo" and ("hi", -5, 0) gives "".
C16_TrimAndRepeat ==
    (task2.pc = "done") =>
        LET n == Len(task2.s)
            k == Max(task2.offset, 0)
            r == task2.result
        IN  /\ IF task2.repetitions <= 0 \/ task2.offset >= n
               THEN r = <<>>
               ELSE /\ Len(r) = (n - k) * task2.repetitions
                    /\ \A j \in 1..Len(r) :
                          r[j] = task2.s[k + ((j - 1) % (n - k)) + 1]
            /\ (/\ task2.s = <<"h", "e", "l", "l", "o">>
                /\ task2.offset = 2 /\ task2.repetitions = 3) =>
                   r = <<"l", "l", "o", "l", "l", "o", "l", "l", "o">>
            /\ (/\ task2.s = <<"h", "i">>
                /\ task2.offset = -5 /\ task2.repetitions = 0) => r = <<>>

\* trim_and_repeat("hello", 2, 3) returned "llollollo"
C16_Witness ==
    /\ task2.pc = "done"
    /\ task2.s = <<"h", "e", "l", "l", "o">>
    /\ task2.offset = 2 /\ task2.repetitions = 3
    /\ task2.result = <<"l", "l", "o", "l", "l", "o", "l", "l", "o">>

\* the sum of the amounts of the success records of one type
RECURSIVE SumOfSuccess(_, _)
SumOfSuccess(history, op_type) ==
    IF history = <<>> THEN 0
    ELSE LET r == history[Len(history)]
             rest == SumOfSuccess(SubSeq(history, 1, Len(history) - 1), op_type)
         IN  IF r.type = op_type /\ r.status = "success"
             THEN rest + r.amount ELSE rest

\* C18: the balance equals the initial balance plus the amounts of all
\* success deposit records minus the amounts of all success withdraw
\* records; fail records contribute nothing.
C18_BalanceIsSumOfRecords ==
    Live =>
        _balance = ctor.balance
                   + SumOfSuccess(operations_history, "deposit")
                   - SumOfSuccess(operations_history, "withdraw")

\* the balance_after of the record before the i-th one, the initial balance
\* for the first record
PreviousBalance(i) ==
    IF i = 1 THEN ToFloat(ctor.balance)
    ELSE operations_history[i - 1].balance_after

\* C19: the last record's balance_after is the current balance, and every
\* record's balance_after is the previous record's balance_after (the
\* initial balance for the first record) plus amount for a success deposit,
\* minus amount for a success withdraw, and the same for a fail record.
C19_BalanceAfterChain ==
    (Live /\ Len(operations_history) > 0) =>
        /\ operations_history[Len(operations_history)].balance_after = _balance
        /\ \A i \in 1..Len(operations_history) :
              LET r == operations_history[i]
              IN  r.balance_after =
                      IF r.status = "fail" THEN PreviousBalance(i)
                      ELSE IF r.type = "deposit"
                           THEN FAdd(PreviousBalance(i), r.amount)
                           ELSE FSub(PreviousBalance(i), r.amount)

\* a success deposit whose sum was rounded, a fail record and a success
\* withdraw, in one history
C19_Witness ==
    /\ Live /\ Len(operations_history) = 3
    /\ operations_history[1].type = "deposit"
    /\ operations_history[1].status = "success"
    /\ operations_history[1].balance_after
           # PreviousBalance(1) + operations_history[1].amount
    /\ operations_history[2].status = "fail"
    /\ operations_history[2].balance_after = operations_history[1].balance_after
    /\ operations_history[3].type = "withdraw"
    /\ operations_history[3].status = "success"
    /\ operations_history[3].balance_after = _balance

\* Account.deposit / Account.withdraw as a function of the account state
\* st = [balance, history], for a base Account run beside another account
AccountStep(st, op, amount, now) ==
    IF NotPositive(amount)
    THEN [balance |-> st.balance,
          history |-> _add_operation(st.history, op, amount, "fail",
                          st.balance, [reason |-> "Amount must be positive"],
                          now)]
    ELSE IF op = "deposit"
    THEN LET b == FAdd(st.balance, amount)
         IN  [balance |-> b,
              history |-> _add_operation(st.history, op, amount, "success",
                                         b, NoExtra, now)]
    ELSE IF InsufficientFunds(amount, st.balance)
    THEN [balance |-> st.balance,
          history |-> _add_operation(st.history, op, amount, "fail",
                          st.balance, [reason |-> "Insufficient funds"], now)]
    ELSE LET b == FSub(st.balance, amount)
         IN  [balance |-> b,
              history |-> _add_operation(st.history, op, amount, "success",
                                         b, NoExtra, now)]

\* the base Account constructed with the initial balance and driven by the
\* calls cs
RECURSIVE AccountRun(_, _)
AccountRun(initial, cs) ==
    IF cs = <<>> THEN [balance |-> ToFloat(initial), history |-> <<>>]
    ELSE AccountStep(AccountRun(initial, SubSeq(cs, 1, Len(cs) - 1)),
                     cs[Len(cs)].op, cs[Len(cs)].amount, Len(cs))

CreditOnlyFields == {"used_credit", "available_credit_after"}

\* C20: a CreditAccount with credit_limit 0 and a base Account with the
\* same initial balance >= 0, driven by the same calls, have the same
\* balance after every call and records with the same type, amount, status
\* and balance_after; they differ only in the reason of a rejected
\* over-withdrawal and in the credit fields.
C20_ZeroLimitCreditMatchesAccount ==
    /\ (Live /\ kind = "Account") =>
           AccountRun(ctor.balance, calls) =
               [balance |-> _balance, history |-> operations_history]
    /\ (Live /\ kind = "CreditAccount" /\ _credit_limit = 0) =>
           LET twin == AccountRun(ctor.balance, calls)
           IN  /\ ctor.balance >= 0
               /\ twin.balance = _balance
               /\ Len(twin.history) = Len(operations_history)
               /\ \A i \in 1..Len(operations_history) :
                     LET a == twin.history[i]
                         c == operations_history[i]
                     IN  /\ a.type = c.type
                         /\ a.amount = c.amount
                         /\ a.status = c.status
                         /\ a.balance_after = c.balance_after
                         /\ DOMAIN a \subseteq DOMAIN c
                         /\ (DOMAIN c \ DOMAIN a) \subseteq CreditOnlyFields
                         /\ (a.status = "fail") =>
                               \/ a.reason = c.reason
                               \/ /\ a.reason = "Insufficient funds"
                                  /\ c.reason = "Credit limit exceeded"

\* a CreditAccount with limit 0 that rejected an over-withdrawal, accepted
\* the withdrawal of its whole balance and rejected a non-positive amount
C20_Witness ==
    /\ Live /\ kind = "CreditAccount" /\ _credit_limit = 0
    /\ ctor.balance = 100 /\ NCalls = 3
    /\ \E i \in 1..3 : /\ operations_history[i].status = "fail"
                       /\ operations_history[i].reason = "Credit limit exceeded"
    /\ \E i \in 1..3 : /\ operations_history[i].type = "withdraw"
                       /\ operations_history[i].status = "success"
                       /\ operations_history[i].balance_after = 0
    /\ \E i \in 1..3 : /\ operations_history[i].status = "fail"
                       /\ operations_history[i].reason = "Amount must be positive"
    /\ AccountRun(100, calls).balance = 0

(* --------------- two threads on one Account, no lock ------------------ *)

\* A call is made of the accesses to the shared account that a thread
\* switch can separate: the read in "amount > self._balance", the read and
\* the write of "self._balance += amount" / "-= amount", the read of
\* self._balance for balance_after, and the append of the record.

Other(t) == 3 - t

InCall(th) == th.pc \notin {"idle", "done"}

\* thread t enters deposit(amount) or withdraw(amount) and tests the amount
Begin(t, c) ==
    /\ phase = "live" /\ kind = "Account"
    /\ conc.rounds < MaxRounds
    /\ threads[t].pc = "idle"
    /\ threads' = [threads EXCEPT ![t] =
          IF NotPositive(c.amount)
          THEN [IdleThread EXCEPT !.pc = "snapshot", !.op = c.op,
                                  !.amount = c.amount, !.status = "fail",
                                  !.reason = "Amount must be positive"]
          ELSE [IdleThread EXCEPT !.pc = IF c.op = "deposit" THEN "load"
                                         ELSE "check",
                                  !.op = c.op, !.amount = c.amount]]
    /\ conc' = IF threads[Other(t)].pc = "idle"
               THEN [conc EXCEPT !.start_balance = _balance,
                                 !.start_len = Len(operations_history),
                                 !.overlapped = FALSE]
               ELSE [conc EXCEPT !.overlapped = InCall(threads[Other(t)])]
    /\ UNCHANGED <<acct_vars, caller, task1, task2>>

\* "if amount > self._balance" of Account.withdraw
Check(t) ==
    /\ threads[t].pc = "check"
    /\ threads' = [threads EXCEPT ![t] =
          IF InsufficientFunds(threads[t].amount, _balance)
          THEN [@ EXCEPT !.pc = "snapshot", !.status = "fail",
                         !.reason = "Insufficient funds"]
          ELSE [@ EXCEPT !.pc = "load"]]
    /\ UNCHANGED <<acct_vars, caller, task1, task2, conc>>

\* the read of self._balance in "self._balance += amount" / "-= amount"
Load(t) ==
    /\ threads[t].pc = "load"
    /\ threads' = [threads EXCEPT ![t].pc = "store", ![t].loaded = _balance]
    /\ UNCHANGED <<acct_vars, caller, task1, task2, conc>>

\* the write of self._balance in "self._balance += amount" / "-= amount"
Store(t) ==
    /\ threads[t].pc = "store"
    /\ _balance' = IF threads[t].op = "deposit"
                   THEN FAdd(threads[t].loaded, threads[t].amount)
                   ELSE FSub(threads[t].loaded, threads[t].amount)
    /\ threads' = [threads EXCEPT ![t].pc = "snapshot",
                                  ![t].status = "success"]
    /\ UNCHANGED <<phase, kind, holder, _credit_limit, operations_history,
                   clock, ctor, calls, caller, task1, task2, conc>>

\* the argument balance_after=self._balance of the _add_operation call
Snapshot(t) ==
    /\ threads[t].pc = "snapshot"
    /\ threads' = [threads EXCEPT ![t].pc = "append",
                                  ![t].balance_after = _balance]
    /\ UNCHANGED <<acct_vars, caller, task1, task2, conc>>

\* self.operations_history.append(record), and the call returns
AppendRecord(t) ==
    /\ threads[t].pc = "append"
    /\ clock' = clock + 1
    /\ operations_history' =
          _add_operation(operations_history, threads[t].op,
              threads[t].amount, threads[t].status, threads[t].balance_after,
              IF threads[t].status = "fail"
              THEN [reason |-> threads[t].reason] ELSE NoExtra,
              clock')
    /\ threads' = [threads EXCEPT ![t].pc = "done"]
    /\ UNCHANGED <<phase, kind, holder, _balance, _credit_limit, ctor, calls,
                   caller, task1, task2, conc>>

\* the account at the start of the round, as AccountStep takes it
RoundStart == [balance |-> conc.start_balance, history |-> <<>>]

\* the two calls of the round made one after the other, t first
Serial(t) ==
    AccountStep(AccountStep(RoundStart, threads[t].op, threads[t].amount, 0),
                threads[Other(t)].op, threads[Other(t)].amount, 0)

\* what a record says of its call
Outcome(r) == <<r.type, r.amount, r.status, r.balance_after>>

Outcomes(history) == [i \in 1..Len(history) |-> Outcome(history[i])]

\* the records the two calls of the round appended
RoundRecords ==
    SubSeq(operations_history, conc.start_len + 1, Len(operations_history))

\* both calls succeeded, the balance shows the effect of one of them only
\* and no serial execution ends with this balance
LostUpdate ==
    /\ \A t \in {1, 2} : threads[t].status = "success"
    /\ \A t \in {1, 2} : _balance # Serial(t).balance
    /\ \E t \in {1, 2} :
          _balance = AccountStep(RoundStart, threads[t].op,
                                 threads[t].amount, 0).balance

\* no serial execution appends these records in this order
Disorder ==
    \A t \in {1, 2} : Outcomes(RoundRecords) # Outcomes(Serial(t).history)

\* a base Account that was not below zero is below zero now
WentNegative == _balance < 0 /\ conc.start_balance >= 0

\* both calls of the round have returned
RoundDone == \A t \in {1, 2} : threads[t].pc = "done"

\* both calls have returned: the host looks at the account, and the
\* threads are free for the next round
Join ==
    /\ RoundDone
    /\ conc' = [conc EXCEPT !.rounds = @ + 1,
                            !.lost = @ \/ LostUpdate,
                            !.negative = @ \/ WentNegative,
                            !.disorder = @ \/ Disorder]
    /\ threads' = NoThreads
    /\ UNCHANGED <<acct_vars, caller, task1, task2>>

NextConc ==
    \/ \E h \in Holders, b \in ConcBalances : NewAccount(h, b)
    \/ \E t \in {1, 2}, c \in ConcCalls : Begin(t, c)
    \/ \E t \in {1, 2} : Check(t)
    \/ \E t \in {1, 2} : Load(t)
    \/ \E t \in {1, 2} : Store(t)
    \/ \E t \in {1, 2} : Snapshot(t)
    \/ \E t \in {1, 2} : AppendRecord(t)
    \/ Join

SpecConc == Init /\ [][NextConc]_vars

\* C17: without mutual exclusion two concurrent calls can lose an update
\* (the final balance differs from every serial execution), bring a base
\* Account below zero through two withdrawals that both passed the funds
\* test, and leave balance_after values in an order no serial execution
\* gives; none of this happens unless the two calls overlap.
C17_AnomaliesNeedOverlap ==
    /\ RoundDone =>
          ((LostUpdate \/ WentNegative \/ Disorder) => conc.overlapped)
    /\ (~RoundDone /\ WentNegative) => conc.overlapped

\* after two rounds of overlapping calls all three were observed and the
\* base Account is below zero
C17_Witness ==
    /\ Live /\ kind = "Account" /\ conc.rounds = 2
    /\ conc.lost /\ conc.disorder /\ conc.negative
    /\ _balance < 0
    /\ Len(operations_history) = 4
    /\ \A i \in 1..4 : operations_history[i].status = "success"

====
